---- MODULE Spec2Model ----
(***************************************************************************)
(* treego: a concurrent, abortable filesystem-tree builder (BuildTreeSafe), *)
(* its process-wide abort signal (abort / once / CloseOnce /               *)
(* ResetGlobalState), the two tree consumers (SearchDFS, PrintTreeDFS) and *)
(* the command-line entry point (main).                                    *)
(*                                                                         *)
(* Every BuildTreeSafe invocation is a task.  A task is named by the index *)
(* path that leads to it: <<b>> is the b-th top-level call, Append(id, i)  *)
(* is the goroutine spawned for entry i of the directory task id lists.    *)
(* The filesystem is the environment: the outcome of each os.Stat and      *)
(* os.ReadDir is drawn when the call is made and recorded in the task.     *)
(***************************************************************************)
EXTENDS Naturals, Integers, Sequences, FiniteSets, TLC

\* Bound: BuildTreeSafe invocations (top-level calls and goroutines) in a run.
MaxNodes == 3

\* Bound: nodes of a tree handed to SearchDFS / PrintTreeDFS by a test.
MaxTreeNodes == 4

VARIABLES
    mode,        \* "cli": the process is main(); "lib": a client of the package (the
                 \* builder tests); "test": a test of the consumers
    tasks,       \* task id -> the frame of that BuildTreeSafe invocation
    abortClosed, \* the channel `abort` has been closed
    onceDone,    \* `once` has run its function
    hist,        \* history: closes of the current channel and who made them, invocations
    cli,         \* main(): [pc, out, called, arg, panicked]
    cons         \* a consumer test: the tree it was given, its last call and the output

vars == <<mode, tasks, abortClosed, onceDone, hist, cli, cons>>

----------------------------------------------------------------------------
(* Values *)

\* The nil *Node.
nil == [Nil |-> TRUE]

\* File names are sequences of characters; ReadDir returns entries sorted by
\* file name, so entry i of a listing carries the i-th name of this pool.
EntryNames == << <<"A">>, <<"a", "B">>, <<"b", ".", "g">>, <<"c">>, <<"d">>, <<"e">> >>

\* The path handed to the top-level call, as its sequence of components.
RootPath == << <<"r">> >>

\* Fault injected into JoinPath: the child's path is the entry name alone.
JoinPathDropsParent(path, name) == <<name>>

\* filepath.Join(path, name) on a clean path and a plain entry name.
JoinPath(path, name) == Append(path, name)

\* info.Name(): the base name of the path that was stat'ed.
BaseName(path) == path[Len(path)]

\* Fault injected into NewNode: IsDir is left at its zero value.
NewNodeNotDir(path, isDir) ==
    [Name |-> BaseName(path), Children |-> <<>>, IsDir |-> FALSE, Path |-> path]

\* Line 40: node := &Node{Name: info.Name(), IsDir: info.IsDir(), Path: path}
NewNode(path, isDir) ==
    [Name |-> BaseName(path), Children |-> <<>>, IsDir |-> isDir, Path |-> path]

\* Lines 70-74: append the non-nil slots to node.Children, in slot order.
RECURSIVE NonNil(_)
NonNil(slots) ==
    IF slots = <<>> THEN <<>>
    ELSE IF slots[1] # nil THEN <<slots[1]>> \o NonNil(Tail(slots))
    ELSE NonNil(Tail(slots))

\* Fault injected into Assemble: the nil check of line 71 is missing.
AssembleKeepsNil(node, childNodes) ==
    [node EXCEPT !.Children = node.Children \o childNodes]

Assemble(node, childNodes) ==
    [node EXCEPT !.Children = node.Children \o NonNil(childNodes)]

\* The frame of a BuildTreeSafe invocation.  path is <<>> until the goroutine
\* has computed childPath; e is the directory entry the goroutine was given.
Frame(pc, path, e) ==
    [pc |-> pc, path |-> path, e |-> e, node |-> nil, entries |-> <<>>,
     childNodes |-> <<>>, i |-> 0, wg |-> 0, ret |-> nil,
     \* history of the invocation
     nStat |-> 0, nList |-> 0, statRes |-> "none", listRes |-> "none",
     sawTrip |-> FALSE, wgDone |-> 0, wgNeg |-> FALSE]

Parent(id) == SubSeq(id, 1, Len(id) - 1)
\* Fault injected into Slot: the goroutines share the loop variable and all
\* write the slot of the first entry.
SlotShared(id) == 1

Slot(id) == id[Len(id)]
IsTop(id) == Len(id) = 1
IsPrefix(a, b) == Len(a) <= Len(b) /\ SubSeq(b, 1, Len(a)) = a

----------------------------------------------------------------------------
(* SearchDFS and PrintTreeDFS: the output they print, as a sequence of lines *)

\* strings.ToLower on the letters file names are made of here.
LowerChar(c) ==
    CASE c = "A" -> "a"
      [] c = "B" -> "b"
      [] c = "G" -> "g"
      [] c = "R" -> "r"
      [] OTHER -> c

ToLower(str) == [k \in 1..Len(str) |-> LowerChar(str[k])]

\* strings.Contains(str, sub)
Contains(str, sub) ==
    \E k \in 0..(Len(str) - Len(sub)) : SubSeq(str, k + 1, k + Len(sub)) = sub

RECURSIVE SearchDFS(_, _), SearchChildren(_, _, _)

\* Fault injected into SearchDFS: the walk gives up once the signal is tripped.
SearchDFSChecksAbort(node, query) ==
    IF abortClosed THEN <<>>
    ELSE (IF Contains(ToLower(node.Name), ToLower(query)) THEN <<node.Path>> ELSE <<>>)
         \o SearchChildren(node.Children, 1, query)

\* Fault injected into SearchDFS: a node that matches is not descended into.
SearchDFSStopsAtMatch(node, query) ==
    IF Contains(ToLower(node.Name), ToLower(query)) THEN <<node.Path>>
    ELSE SearchChildren(node.Children, 1, query)

\* Lines 89-96.  A line of output is the Path of the node.
SearchDFS(node, query) ==
    (IF Contains(ToLower(node.Name), ToLower(query)) THEN <<node.Path>> ELSE <<>>)
    \o SearchChildren(node.Children, 1, query)

SearchChildren(children, k, query) ==
    IF k > Len(children) THEN <<>>
    ELSE SearchDFS(children[k], query) \o SearchChildren(children, k + 1, query)

\* A compiled regular expression is a literal, found anywhere in the name, or
\* with a trailing $ at the end of the name; NoRegex is the nil *Regexp.
NoRegex == [none |-> TRUE]

MatchString(regex, name) ==
    IF regex.anchorEnd
    THEN /\ Len(name) >= Len(regex.lit)
         /\ SubSeq(name, Len(name) - Len(regex.lit) + 1, Len(name)) = regex.lit
    ELSE Contains(name, regex.lit)

\* Fault injected into HasMatch: the lookahead also inspects the grandchildren.
HasMatchDeep(child, regex) ==
    \E g \in 1..Len(child.Children) :
        \/ MatchString(regex, child.Children[g].Name)
        \/ \E h \in 1..Len(child.Children[g].Children) :
              MatchString(regex, child.Children[g].Children[h].Name)

\* Lines 105-111: some immediate child of the directory matches.
HasMatch(child, regex) ==
    \E g \in 1..Len(child.Children) : MatchString(regex, child.Children[g].Name)

\* Fault injected into Skipped: a name that matches the regex passes the
\* dirs-only test.
SkippedUnlessMatch(child, regex, dirsOnly) ==
    IF regex # NoRegex /\ MatchString(regex, child.Name) THEN FALSE
    ELSE \/ dirsOnly /\ ~child.IsDir
         \/ /\ regex # NoRegex
            /\ IF child.IsDir THEN ~HasMatch(child, regex) ELSE TRUE

\* Lines 100-118: the child is skipped (continue).
Skipped(child, regex, dirsOnly) ==
    \/ dirsOnly /\ ~child.IsDir
    \/ /\ regex # NoRegex
       /\ ~MatchString(regex, child.Name)
       /\ IF child.IsDir THEN ~HasMatch(child, regex) ELSE TRUE

\* Lines 98-131.  A line of output is prefix + branch + child.Name; prefix is
\* the sequence of its four-column segments.  The box-drawing connectors of
\* the source are written in ASCII: "|-- " (middle), "+-- " (last), "|   ".
RECURSIVE PrintTreeDFS(_, _, _, _), PrintFrom(_, _, _, _, _)
PrintTreeDFS(node, prefix, regex, dirsOnly) ==
    PrintFrom(node, 1, prefix, regex, dirsOnly)

\* Fault injected into PrintFrom: every printed child is descended into.
PrintFromIntoFiles(node, i, prefix, regex, dirsOnly) ==
    IF i > Len(node.Children) THEN <<>>
    ELSE LET child == node.Children[i]
             last == i = Len(node.Children)
             branch == IF last THEN "+-- " ELSE "|-- "
             nextPrefix == prefix \o (IF last THEN <<"    ">> ELSE <<"|   ">>)
         IN (IF Skipped(child, regex, dirsOnly) THEN <<>>
             ELSE <<prefix \o <<branch>> \o child.Name>>
                  \o PrintTreeDFS(child, nextPrefix, regex, dirsOnly))
            \o PrintFrom(node, i + 1, prefix, regex, dirsOnly)

\* Fault injected into PrintFrom: the children of a directory that is skipped
\* are still walked.
PrintFromThroughSkipped(node, i, prefix, regex, dirsOnly) ==
    IF i > Len(node.Children) THEN <<>>
    ELSE LET child == node.Children[i]
             last == i = Len(node.Children)
             branch == IF last THEN "+-- " ELSE "|-- "
             nextPrefix == prefix \o (IF last THEN <<"    ">> ELSE <<"|   ">>)
         IN (IF Skipped(child, regex, dirsOnly) THEN <<>>
             ELSE <<prefix \o <<branch>> \o child.Name>>)
            \o (IF child.IsDir
                THEN PrintTreeDFS(child, nextPrefix, regex, dirsOnly)
                ELSE <<>>)
            \o PrintFrom(node, i + 1, prefix, regex, dirsOnly)

\* Fault injected into PrintFrom: `last` is the last child that is printed.
PrintFromLastPrinted(node, i, prefix, regex, dirsOnly) ==
    IF i > Len(node.Children) THEN <<>>
    ELSE LET child == node.Children[i]
             last == \A j \in (i + 1)..Len(node.Children) :
                        Skipped(node.Children[j], regex, dirsOnly)
             branch == IF last THEN "+-- " ELSE "|-- "
             nextPrefix == prefix \o (IF last THEN <<"    ">> ELSE <<"|   ">>)
         IN (IF Skipped(child, regex, dirsOnly) THEN <<>>
             ELSE <<prefix \o <<branch>> \o child.Name>>
                  \o (IF child.IsDir
                      THEN PrintTreeDFS(child, nextPrefix, regex, dirsOnly)
                      ELSE <<>>))
            \o PrintFrom(node, i + 1, prefix, regex, dirsOnly)

PrintFrom(node, i, prefix, regex, dirsOnly) ==
    IF i > Len(node.Children) THEN <<>>
    ELSE LET child == node.Children[i]
             last == i = Len(node.Children)
             branch == IF last THEN "+-- " ELSE "|-- "
             nextPrefix == prefix \o (IF last THEN <<"    ">> ELSE <<"|   ">>)
         IN (IF Skipped(child, regex, dirsOnly) THEN <<>>
             ELSE <<prefix \o <<branch>> \o child.Name>>
                  \o (IF child.IsDir
                      THEN PrintTreeDFS(child, nextPrefix, regex, dirsOnly)
                      ELSE <<>>))
            \o PrintFrom(node, i + 1, prefix, regex, dirsOnly)

----------------------------------------------------------------------------
(* The abort signal *)

\* Fault injected into OnceFires: close(abort) without the once guard.
OnceAlwaysFires == TRUE

\* sync.Once.Do runs its function only if no call has run it before.
OnceFires == ~onceDone

\* Fault injected into CloseOnce: a call after the first makes a fresh channel.
CloseOnceRearm(who) ==
    IF ~onceDone
    THEN /\ abortClosed' = TRUE
         /\ onceDone' = TRUE
         /\ hist' = [hist EXCEPT !.closes = @ + 1,
                                 !.doubleClose = @ \/ abortClosed,
                                 !.returned = TRUE,
                                 !.closedBy = @ \cup {who}]
    ELSE /\ abortClosed' = FALSE
         /\ onceDone' = onceDone
         /\ hist' = [hist EXCEPT !.returned = TRUE]

\* Lines 81-85: once.Do(func() { close(abort) }).  Closing a closed channel
\* panics; the history records that it happened.
\* who made the call is kept in the history: a task id, or <<>> for a client.
CloseOnce(who) ==
    IF OnceFires
    THEN /\ abortClosed' = TRUE
         /\ onceDone' = TRUE
         /\ hist' = [hist EXCEPT !.closes = @ + 1,
                                 !.doubleClose = @ \/ abortClosed,
                                 !.returned = TRUE,
                                 !.closedBy = @ \cup {who}]
    ELSE /\ UNCHANGED <<abortClosed, onceDone>>
         /\ hist' = [hist EXCEPT !.returned = TRUE]

----------------------------------------------------------------------------
(* BuildTreeSafe *)

\* A return of BuildTreeSafe with value v, from the frames ts.  The top-level
\* call hands v to its caller; in a goroutine line 64 stores it in the
\* parent's slot and the deferred wg.Done() is still to run.
Return(ts, id, v) ==
    IF IsTop(id)
    THEN [ts EXCEPT ![id].pc = "done", ![id].ret = v]
    ELSE [ts EXCEPT ![id].pc = "deferred", ![id].ret = v,
                    ![Parent(id)].childNodes[Slot(id)] = v]

\* Fault injected into BranchAborts: the goroutine does not look at the signal.
BranchNeverAborts == FALSE

\* Fault injected into BranchAborts: the select takes the abort case when the
\* channel is open.
BranchAbortsInverted == ~abortClosed

\* Lines 58-62: the goroutine's select on abort, with a default case.
BranchAborts == abortClosed

\* Fault injected into BranchReturn: the early return runs no wg.Done().
BranchReturnSkipsDone(ts, id) == [ts EXCEPT ![id].pc = "done"]

\* Lines 57-60: the goroutine returns; its deferred wg.Done() is still to run.
BranchReturn(ts, id) == [ts EXCEPT ![id].pc = "deferred"]

\* Lines 58-63 of the goroutine: the re-check of the signal, then childPath.
BranchCheck(id) ==
    /\ tasks[id].pc = "branch"
    /\ LET seen == [tasks EXCEPT ![id].sawTrip = @ \/ abortClosed]
       IN IF BranchAborts
          THEN tasks' = BranchReturn(seen, id)
          ELSE tasks' = [seen EXCEPT ![id].pc = "entry",
                                     ![id].path = JoinPath(tasks[Parent(id)].path, tasks[id].e)]
    /\ UNCHANGED <<mode, abortClosed, onceDone, hist, cli, cons>>

\* Fault injected into EntryAborts: the select takes the abort case when the
\* channel is open.
EntryAbortsInverted == ~abortClosed

\* Fault injected into EntryAborts: BuildTreeSafe does not look at the signal.
EntryNeverAborts == FALSE

\* Lines 27-32: BuildTreeSafe's select on abort, with a default case.
EntryAborts == abortClosed

EntryCheck(id) ==
    /\ tasks[id].pc = "entry"
    /\ LET seen == [tasks EXCEPT ![id].sawTrip = @ \/ abortClosed]
       IN IF EntryAborts
          THEN tasks' = Return(seen, id, nil)
          ELSE tasks' = [seen EXCEPT ![id].pc = "stat"]
    /\ UNCHANGED <<mode, abortClosed, onceDone, hist, cli, cons>>

\* Fault injected into IsLeaf: a non-directory is listed like a directory.
NeverLeaf(isDir) == FALSE

\* Line 41: the node is returned as a leaf.
IsLeaf(isDir) == ~isDir

\* Lines 34-43: os.Stat(path); an error leads to CloseOnce, a non-directory
\* is returned at once, a directory goes on to os.ReadDir.
Stat(id) ==
    /\ tasks[id].pc = "stat"
    /\ \E res \in {"err", "file", "dir"} :
         LET did == [tasks EXCEPT ![id].nStat = @ + 1, ![id].statRes = res]
             node == NewNode(tasks[id].path, res = "dir")
         IN IF res = "err"
            THEN tasks' = [did EXCEPT ![id].pc = "trip"]
            ELSE IF IsLeaf(res = "dir")
            THEN tasks' = Return([did EXCEPT ![id].node = node], id, node)
            ELSE tasks' = [did EXCEPT ![id].node = node, ![id].pc = "readdir"]
    /\ UNCHANGED <<mode, abortClosed, onceDone, hist, cli, cons>>

\* Lines 36-37 and 47-48: CloseOnce(); return nil
Trip(id) ==
    /\ tasks[id].pc = "trip"
    /\ CloseOnce(id)
    /\ tasks' = Return(tasks, id, nil)
    /\ UNCHANGED <<mode, cli, cons>>

\* Lines 45-52: os.ReadDir(path); on success childNodes has one nil slot per
\* entry.  The listing has n entries, as many as the bound on invocations
\* leaves room for.
ReadDir(id) ==
    /\ tasks[id].pc = "readdir"
    /\ \/ /\ tasks' = [tasks EXCEPT ![id].nList = @ + 1, ![id].listRes = "err",
                                      ![id].pc = "trip"]
          /\ hist' = hist
       \/ \E n \in 0..Len(EntryNames) :
            /\ hist.nodes + n <= MaxNodes
            /\ tasks' = [tasks EXCEPT ![id].nList = @ + 1,
                                      ![id].listRes = "ok",
                                      ![id].entries = SubSeq(EntryNames, 1, n),
                                      ![id].childNodes = [k \in 1..n |-> nil],
                                      ![id].pc = IF n = 0 THEN "wait" ELSE "spawn"]
            /\ hist' = [hist EXCEPT !.nodes = @ + n]
    /\ UNCHANGED <<mode, abortClosed, onceDone, cli, cons>>

\* Lines 54-66, one iteration: wg.Add(1); go func(i, e) {...}(i, e)
Spawn(id) ==
    /\ tasks[id].pc = "spawn"
    /\ LET k == tasks[id].i + 1
           child == Append(id, k)
       IN tasks' = [tasks EXCEPT ![id].i = k,
                                 ![id].wg = @ + 1,
                                 ![id].pc = IF k = Len(tasks[id].entries) THEN "wait" ELSE "spawn"]
                   @@ (child :> Frame("branch", <<>>, tasks[id].entries[k]))
    /\ UNCHANGED <<mode, abortClosed, onceDone, hist, cli, cons>>

\* Line 57: defer wg.Done(), run when the goroutine's function returns.  A
\* counter that would go negative panics; the history records it.
WgDone(id) ==
    /\ tasks[id].pc = "deferred"
    /\ tasks' = [tasks EXCEPT ![id].pc = "done",
                              ![id].wgDone = @ + 1,
                              ![Parent(id)].wg = IF @ > 0 THEN @ - 1 ELSE 0,
                              ![Parent(id)].wgNeg = @ \/ (tasks[Parent(id)].wg = 0)]
    /\ UNCHANGED <<mode, abortClosed, onceDone, hist, cli, cons>>

\* Fault injected into WaitReturns: the join does not wait.
WaitReturnsAtOnce(wg) == TRUE

\* Line 68: wg.Wait() returns when the counter is zero.
WaitReturns(wg) == wg = 0

\* Lines 68-76: the join, then the children are assembled and the node returned.
Wait(id) ==
    /\ tasks[id].pc = "wait"
    /\ WaitReturns(tasks[id].wg)
    /\ tasks' = Return(tasks, id, Assemble(tasks[id].node, tasks[id].childNodes))
    /\ UNCHANGED <<mode, abortClosed, onceDone, hist, cli, cons>>

TaskStep(id) ==
    \/ BranchCheck(id)
    \/ EntryCheck(id)
    \/ Stat(id)
    \/ Trip(id)
    \/ ReadDir(id)
    \/ Spawn(id)
    \/ WgDone(id)
    \/ Wait(id)

TaskNext == \E id \in DOMAIN tasks : TaskStep(id)

----------------------------------------------------------------------------
(* Clients of the package: the calls the tests make *)

TopIds == {id \in DOMAIN tasks : IsTop(id)}

\* A top-level call BuildTreeSafe(RootPath).
StartBuild ==
    /\ mode = "lib"
    /\ hist.nodes < MaxNodes
    /\ tasks' = tasks @@ (<<Cardinality(TopIds) + 1>> :> Frame("entry", RootPath, <<>>))
    /\ hist' = [hist EXCEPT !.nodes = @ + 1]
    /\ UNCHANGED <<mode, abortClosed, onceDone, cli, cons>>

\* A client calls CloseOnce(), any number of times.
ClientCloseOnce ==
    /\ mode = "lib"
    /\ CloseOnce(<<>>)
    /\ UNCHANGED <<mode, tasks, cli, cons>>

Quiescent == \A id \in DOMAIN tasks : tasks[id].pc = "done"

\* Fault injected into ResetGlobalState: the channel is replaced and the once
\* guard is kept.
ResetChannelOnly ==
    /\ mode = "lib"
    /\ Quiescent
    /\ abortClosed' = FALSE
    /\ onceDone' = onceDone
    /\ hist' = [hist EXCEPT !.closes = 0, !.doubleClose = FALSE, !.returned = FALSE,
                            !.closedBy = {}]
    /\ UNCHANGED <<mode, tasks, cli, cons>>

\* Lines 134-137: abort = make(chan struct{}); once = sync.Once{}.  The tests
\* call it between builds, never while a build runs.
ResetGlobalState ==
    /\ mode = "lib"
    /\ Quiescent
    /\ abortClosed' = FALSE
    /\ onceDone' = FALSE
    /\ hist' = [hist EXCEPT !.closes = 0, !.doubleClose = FALSE, !.returned = FALSE,
                            !.closedBy = {}]
    /\ UNCHANGED <<mode, tasks, cli, cons>>

----------------------------------------------------------------------------
(* main(): the command line *)

\* The --search values, <<>> for a flag that was not given; the --regex
\* values; --dirs-only is any boolean.
Queries == {<<>>, <<"a">>}
Regexes == {NoRegex, [lit |-> <<".", "g">>, anchorEnd |-> TRUE]}

\* part_000 lines 150-157: os.Stat(rootPath) fails, "Invalid path:" is
\* printed and main returns; otherwise root := treego.BuildTreeSafe(rootPath).
CliStat ==
    /\ mode = "cli"
    /\ cli.pc = "stat"
    /\ \/ /\ cli' = [cli EXCEPT !.pc = "exit", !.out = @ \o << <<"Invalid path:">> >>]
          /\ UNCHANGED <<tasks, hist>>
       \/ /\ cli' = [cli EXCEPT !.pc = "build"]
          /\ tasks' = tasks @@ (<<1>> :> Frame("entry", RootPath, <<>>))
          /\ hist' = [hist EXCEPT !.nodes = @ + 1]
    /\ UNCHANGED <<mode, abortClosed, onceDone, cons>>

\* part_000 lines 159-164, once BuildTreeSafe has returned root.  SearchDFS
\* and PrintTreeDFS dereference their node: on a nil root the process panics
\* with whatever it had printed so far.
CliConsume ==
    /\ mode = "cli"
    /\ cli.pc = "build"
    /\ tasks[<<1>>].pc = "done"
    /\ \E search \in Queries, re \in Regexes, dirsOnly \in BOOLEAN :
         LET root == tasks[<<1>>].ret
         IN IF search # <<>>
            THEN cli' = [cli EXCEPT
                     !.pc = "exit",
                     !.called = "SearchDFS",
                     !.arg = root,
                     !.panicked = (root = nil),
                     !.out = IF root = nil THEN @ ELSE @ \o SearchDFS(root, search)]
            ELSE cli' = [cli EXCEPT
                     !.pc = "exit",
                     !.called = "PrintTreeDFS",
                     !.arg = root,
                     !.panicked = (root = nil),
                     !.out = @ \o <<BaseName(RootPath)>>
                               \o (IF root = nil THEN <<>>
                                   ELSE PrintTreeDFS(root, <<>>, re, dirsOnly))]
    /\ UNCHANGED <<mode, tasks, abortClosed, onceDone, hist, cons>>

----------------------------------------------------------------------------

(* The consumer tests: SearchDFS and PrintTreeDFS on a tree *)

\* The names the nodes of a test's tree carry below the root, in ReadDir order.
TreeNames == SubSeq(EntryNames, 1, 3)

\* The trees BuildTreeSafe can return for `path`, of at most n nodes, each
\* with its size: a file, or a directory assembled from the trees of some of
\* its entries, in entry order.
RECURSIVE TreesAt(_, _), ForestsAt(_, _, _)
TreesAt(path, n) ==
    IF n = 0 THEN {}
    ELSE {[t |-> NewNode(path, FALSE), s |-> 1]} \cup
         {[t |-> Assemble(NewNode(path, TRUE), f.c), s |-> 1 + f.s] :
             f \in ForestsAt(path, 1, n - 1)}

\* The child sequences over entries k.. of `path`, of at most n nodes in all.
ForestsAt(path, k, n) ==
    {[c |-> <<>>, s |-> 0]} \cup
    UNION {UNION {{[c |-> <<h.t>> \o r.c, s |-> h.s + r.s] :
                      r \in ForestsAt(path, j + 1, n - h.s)} :
                  h \in TreesAt(JoinPath(path, TreeNames[j]), n)} :
           j \in k..Len(TreeNames)}

\* A tree written as a Node literal, as TestNode does, that no build returns:
\* a non-directory that carries a child.
LiteralTree ==
    [NewNode(RootPath, TRUE) EXCEPT !.Children =
        << [NewNode(JoinPath(RootPath, TreeNames[1]), FALSE) EXCEPT !.Children =
               << NewNode(JoinPath(JoinPath(RootPath, TreeNames[1]), TreeNames[2]), FALSE) >>],
           NewNode(JoinPath(RootPath, TreeNames[3]), TRUE) >>]

Trees == {x.t : x \in TreesAt(RootPath, MaxTreeNodes)} \cup {LiteralTree}

\* The arguments the tests pass.
TestQueries == Queries \cup {<<"R">>, <<"z">>}
Prefixes == {<<>>, <<"|   ">>}

\* No call made yet by a test that holds the tree `given` (nil: none yet).
NoCall(given) ==
    [given |-> given, fn |-> "none", node |-> nil, query |-> <<>>, prefix |-> <<>>,
     regex |-> NoRegex, dirsOnly |-> FALSE, out |-> <<>>]

----------------------------------------------------------------------------

Init ==
    /\ mode \in {"cli", "lib"}
    /\ tasks = <<>>
    /\ abortClosed = FALSE
    /\ onceDone = FALSE
    /\ hist = [closes |-> 0, doubleClose |-> FALSE, returned |-> FALSE,
               closedBy |-> {}, nodes |-> 0]
    /\ cli = [pc |-> IF mode = "cli" THEN "stat" ELSE "off", out |-> <<>>,
              called |-> "none", arg |-> nil, panicked |-> FALSE]
    /\ cons = NoCall(nil)

Next ==
    \/ \E id \in DOMAIN tasks : BranchCheck(id)
    \/ \E id \in DOMAIN tasks : EntryCheck(id)
    \/ \E id \in DOMAIN tasks : Stat(id)
    \/ \E id \in DOMAIN tasks : Trip(id)
    \/ \E id \in DOMAIN tasks : ReadDir(id)
    \/ \E id \in DOMAIN tasks : Spawn(id)
    \/ \E id \in DOMAIN tasks : WgDone(id)
    \/ \E id \in DOMAIN tasks : Wait(id)
    \/ StartBuild
    \/ ClientCloseOnce
    \/ ResetGlobalState
    \/ CliStat
    \/ CliConsume

Spec == Init /\ [][Next]_vars

\* The Go scheduler runs every runnable goroutine: a step of some invocation
\* that stays possible is taken.  The clients and main() owe no progress.
FairSpec == Spec /\ WF_vars(TaskNext)

----------------------------------------------------------------------------
(* The consumer tests as a specification of their own *)

\* A test holds a tree that a build returned, or holds nothing yet and builds
\* its tree.
TestInit ==
    /\ mode = "test"
    /\ tasks = <<>>
    /\ abortClosed = FALSE
    /\ onceDone = FALSE
    /\ hist = [closes |-> 0, doubleClose |-> FALSE, returned |-> FALSE,
               closedBy |-> {}, nodes |-> 0]
    /\ cli = [pc |-> "off", out |-> <<>>, called |-> "none", arg |-> nil,
              panicked |-> FALSE]
    /\ \E given \in Trees \cup {nil} : cons = NoCall(given)

\* root := BuildTreeSafe(tmpDir), once, in a test that was given no tree.
TestBuild ==
    /\ mode = "test"
    /\ cons.given = nil
    /\ tasks = <<>>
    /\ tasks' = (<<1>> :> Frame("entry", RootPath, <<>>))
    /\ hist' = [hist EXCEPT !.nodes = @ + 1]
    /\ UNCHANGED <<mode, abortClosed, onceDone, cli, cons>>

\* closeOnce(), called by the test any number of times, before or after its
\* build: during the build the test is inside buildTreeSafe.
TestCloseOnce ==
    /\ mode = "test"
    /\ Quiescent
    /\ CloseOnce(<<>>)
    /\ UNCHANGED <<mode, tasks, cli, cons>>

\* The trees the test can pass on: its own, or the one its build returned
\* (the tests stop at a nil root).
TestNodes ==
    IF cons.given # nil THEN {cons.given}
    ELSE {tasks[id].ret : id \in {d \in DOMAIN tasks :
              IsTop(d) /\ tasks[d].pc = "done" /\ tasks[d].ret # nil}}

\* SearchDFS(node, query), its output captured.
CallSearchDFS ==
    /\ mode = "test"
    /\ \E node \in TestNodes, query \in TestQueries :
         cons' = [NoCall(cons.given) EXCEPT
                     !.fn = "SearchDFS", !.node = node, !.query = query,
                     !.out = SearchDFS(node, query)]
    /\ UNCHANGED <<mode, tasks, abortClosed, onceDone, hist, cli>>

\* PrintTreeDFS(node, prefix, regex, dirsOnly), its output captured.
CallPrintTreeDFS ==
    /\ mode = "test"
    /\ \E node \in TestNodes, prefix \in Prefixes, regex \in Regexes,
          dirsOnly \in BOOLEAN :
         cons' = [NoCall(cons.given) EXCEPT
                     !.fn = "PrintTreeDFS", !.node = node, !.prefix = prefix,
                     !.regex = regex, !.dirsOnly = dirsOnly,
                     !.out = PrintTreeDFS(node, prefix, regex, dirsOnly)]
    /\ UNCHANGED <<mode, tasks, abortClosed, onceDone, hist, cli>>

TestNext ==
    \/ \E id \in DOMAIN tasks : BranchCheck(id)
    \/ \E id \in DOMAIN tasks : EntryCheck(id)
    \/ \E id \in DOMAIN tasks : Stat(id)
    \/ \E id \in DOMAIN tasks : Trip(id)
    \/ \E id \in DOMAIN tasks : ReadDir(id)
    \/ \E id \in DOMAIN tasks : Spawn(id)
    \/ \E id \in DOMAIN tasks : WgDone(id)
    \/ \E id \in DOMAIN tasks : Wait(id)
    \/ TestBuild
    \/ TestCloseOnce
    \/ CallSearchDFS
    \/ CallPrintTreeDFS

ConsumerSpec == TestInit /\ [][TestNext]_vars

----------------------------------------------------------------------------
(* Properties *)

Returned(id) == tasks[id].pc \in {"deferred", "done"}

\* The invocations of the build that id roots: id and everything spawned below.
Subtree(id) == {d \in DOMAIN tasks : IsPrefix(id, d)}

\* A stat or a listing of the build rooted at id failed.
FailedIn(id) ==
    \E d \in Subtree(id) : tasks[d].statRes = "err" \/ tasks[d].listRes = "err"

\* Some check of the build rooted at id found the signal tripped.
TrippedIn(id) == \E d \in Subtree(id) : tasks[d].sawTrip

\* The tree the filesystem showed to the build: what task id stat'ed at path
\* and, for a directory, one subtree per entry of the listing it read.
RECURSIVE Shown(_, _)
Shown(id, path) ==
    [Name |-> path[Len(path)],
     Path |-> path,
     IsDir |-> tasks[id].statRes = "dir",
     Children |-> [k \in 1..Len(tasks[id].entries) |->
                      Shown(Append(id, k), path \o <<tasks[id].entries[k]>>)]]

\* C1: fail-fast propagation.  A top-level call that found the signal open
\* and in whose tree a stat or a listing failed has returned nil.
C1_FailFast ==
    \A id \in TopIds :
        (tasks[id].pc = "done" /\ ~tasks[id].sawTrip /\ FailedIn(id))
            => tasks[id].ret = nil

\* C2: complete tree on success.  A top-level call in whose tree nothing
\* failed and no check found the signal tripped has returned the whole tree
\* the filesystem showed, node for node (name, directory flag, joined path, in
\* listing order), and no task of that build closed the channel.
C2_CompleteTree ==
    \A id \in TopIds :
        (tasks[id].pc = "done" /\ ~FailedIn(id) /\ ~TrippedIn(id))
            => /\ tasks[id].ret # nil
               /\ tasks[id].ret = Shown(id, RootPath)
               /\ hist.closedBy \cap Subtree(id) = {}

C2_Witness ==
    \E id \in TopIds :
        /\ tasks[id].pc = "done" /\ ~FailedIn(id) /\ ~TrippedIn(id)
        /\ tasks[id].ret # nil
        /\ Len(tasks[id].ret.Children) = 1
        /\ Len(tasks[id].ret.Children[1].Children) = 1

\* C3: exactly-once trip.  Since the last reset the channel was closed at most
\* once, no close ran on a closed channel, and once a CloseOnce call has
\* returned the channel is closed, by exactly one close.
C3_ExactlyOnce ==
    /\ hist.closes <= 1
    /\ ~hist.doubleClose
    /\ hist.returned => (abortClosed /\ hist.closes = 1)

C3_Witness ==
    /\ hist.closedBy = {<<>>}
    /\ \E id, d \in DOMAIN tasks :
          /\ id # d
          /\ tasks[id].statRes = "err" /\ Returned(id) /\ ~tasks[id].sawTrip
          /\ tasks[d].listRes = "err" /\ Returned(d) /\ ~tasks[d].sawTrip

\* C4: check before work.  An invocation one of whose checks found the signal
\* tripped has returned nil and has made no stat, no listing and no goroutine.
C4_CheckBeforeWork ==
    \A id \in DOMAIN tasks :
        tasks[id].sawTrip =>
            /\ Returned(id)
            /\ tasks[id].ret = nil
            /\ tasks[id].nStat = 0 /\ tasks[id].nList = 0
            /\ \A d \in DOMAIN tasks : d # id => ~IsPrefix(id, d)

C4_Witness ==
    /\ \E id \in DOMAIN tasks :
          ~IsTop(id) /\ tasks[id].sawTrip /\ tasks[id].path # <<>>
    /\ \E id \in DOMAIN tasks :
          ~IsTop(id) /\ tasks[id].sawTrip /\ tasks[id].path = <<>>

\* C5: join before use.  When an invocation has returned, every goroutine
\* of its subtree has finished (its wg.Done() included) and every entry of
\* its listing had its goroutine.
C5_JoinBeforeUse ==
    \A id \in DOMAIN tasks :
        Returned(id) =>
            /\ tasks[id].i = Len(tasks[id].entries)
            /\ \A d \in Subtree(id) : d # id => tasks[d].pc = "done"

C5_Witness ==
    \E id \in TopIds :
        /\ tasks[id].pc = "done" /\ tasks[id].ret # nil
        /\ \E d \in Subtree(id) : Len(d) = 3

\* The results of the goroutines of directory id, by entry index.
BranchResults(id) == [k \in 1..Len(tasks[id].entries) |-> tasks[Append(id, k)].ret]

\* C6: order preservation, no nil child.  The Children of a returned directory
\* node are the non-nil results of its goroutines in the order of the listing.
C6_ChildrenInOrder ==
    \A id \in DOMAIN tasks :
        (Returned(id) /\ tasks[id].ret # nil /\ tasks[id].ret.IsDir) =>
            LET present(x) == x # nil
                kids == tasks[id].ret.Children
            IN /\ kids = SelectSeq(BranchResults(id), present)
               /\ \A k \in 1..Len(kids) : kids[k] # nil
               /\ \E f \in [1..Len(kids) -> 1..Len(tasks[id].entries)] :
                     /\ \A k \in 1..Len(kids) : kids[k].Name = tasks[id].entries[f[k]]
                     /\ \A k, l \in 1..Len(kids) : k < l => f[k] < f[l]

C6_Witness ==
    \E id \in DOMAIN tasks :
        /\ Returned(id) /\ tasks[id].ret # nil
        /\ Len(tasks[id].entries) = 2
        /\ tasks[Append(id, 1)].ret = nil
        /\ Len(tasks[id].ret.Children) = 1

AllDone == \A id \in DOMAIN tasks : tasks[id].pc = "done"

\* C7: termination without deadlock.  Under fair scheduling every invocation
\* finishes for good; a finished goroutine has run wg.Done() exactly once and
\* no counter went negative; and an unfinished invocation that is not at the
\* join can always take its next step.
C7_Terminates ==
    /\ [](\A id \in DOMAIN tasks :
            /\ (tasks[id].pc = "done" /\ ~IsTop(id)) => tasks[id].wgDone = 1
            /\ tasks[id].wgDone <= 1
            /\ ~tasks[id].wgNeg
            /\ tasks[id].pc \notin {"done", "wait"} => ENABLED TaskStep(id))
    /\ <>[]AllDone

C7_Witness ==
    /\ AllDone
    /\ \E id \in DOMAIN tasks : ~IsTop(id) /\ tasks[id].sawTrip /\ tasks[id].path = <<>>
    /\ \E id \in DOMAIN tasks : tasks[id].listRes = "err"

\* Every non-directory node of the tree has no children.
RECURSIVE LeavesBare(_)
LeavesBare(node) ==
    /\ ~node.IsDir => node.Children = <<>>
    /\ \A k \in 1..Len(node.Children) : LeavesBare(node.Children[k])

\* C8: leaf short-circuit.  An invocation whose stat showed a non-directory
\* has returned a node with IsDir false and no children, without a listing
\* and without a goroutine; and no built tree has a non-directory with children.
C8_LeafShortCircuit ==
    \A id \in DOMAIN tasks :
        /\ tasks[id].statRes = "file" =>
              /\ Returned(id)
              /\ tasks[id].ret # nil
              /\ ~tasks[id].ret.IsDir
              /\ tasks[id].ret.Children = <<>>
              /\ tasks[id].nList = 0
              /\ Subtree(id) = {id}
        /\ tasks[id].ret # nil => LeavesBare(tasks[id].ret)

C8_Witness ==
    /\ \E id \in TopIds : tasks[id].statRes = "file" /\ tasks[id].pc = "done"
    /\ \E id \in TopIds :
          /\ tasks[id].pc = "done" /\ tasks[id].ret # nil
          /\ Len(tasks[id].ret.Children) = 1
          /\ ~tasks[id].ret.Children[1].IsDir

\* C9: monotonic signal.  No step other than a ResetGlobalState call takes
\* the channel from closed back to open.
C9_Monotonic ==
    [][(abortClosed /\ ~abortClosed') => ResetGlobalState]_vars

C9_Witness ==
    /\ abortClosed
    /\ hist.closedBy = {<<>>}
    /\ \E id \in DOMAIN tasks : tasks[id].sawTrip /\ tasks[id].pc = "done"
    /\ \E id \in DOMAIN tasks : tasks[id].statRes = "err" /\ tasks[id].pc = "done"

\* C10: all-or-nothing command line.  When main() has exited after a build
\* that returned nil, it called neither SearchDFS nor PrintTreeDFS and its
\* whole output is the invalid-path message.
C10_CliAllOrNothing ==
    (/\ mode = "cli"
     /\ cli.pc = "exit"
     /\ <<1>> \in DOMAIN tasks
     /\ tasks[<<1>>].ret = nil)
        => /\ cli.called = "none"
           /\ cli.out = << <<"Invalid path:">> >>

----------------------------------------------------------------------------
(* The consumers' output against the tree *)

\* A position is the sequence of child indices that leads from the root of a
\* tree to one of its nodes; <<>> is the root.
RECURSIVE Positions(_), NodeAt(_, _)
Positions(node) ==
    {<<>>} \cup UNION {{<<i>> \o p : p \in Positions(node.Children[i])} :
                          i \in 1..Len(node.Children)}

NodeAt(node, pos) ==
    IF pos = <<>> THEN node ELSE NodeAt(node.Children[Head(pos)], Tail(pos))

\* p comes before q in depth-first pre-order with children in stored order.
PreorderBefore(p, q) ==
    /\ p # q
    /\ \/ IsPrefix(p, q)
       \/ \E k \in 1..Len(p) :
            /\ k <= Len(q)
            /\ SubSeq(p, 1, k - 1) = SubSeq(q, 1, k - 1)
            /\ p[k] < q[k]

\* The positions of the nodes whose lower-cased name contains the lower-cased query.
Matching(node, query) ==
    {p \in Positions(node) :
        Contains(ToLower(NodeAt(node, p).Name), ToLower(query))}

\* C11: search result set and order.  The output of SearchDFS(node, query) is
\* the Path of every node of the tree (the root, files, directories, nodes
\* below a match) whose lower-cased Name contains the lower-cased query, once
\* each, in depth-first pre-order; the empty query gives every node and a
\* query found in no name gives nothing.
C11_SearchResult ==
    (cons.fn = "SearchDFS") =>
        LET M == Matching(cons.node, cons.query)
            out == cons.out
        IN /\ Len(out) = Cardinality(M)
           /\ \A p \in M : \E k \in 1..Len(out) : out[k] = NodeAt(cons.node, p).Path
           /\ \A j, k \in 1..Len(out) :
                j < k => \E p, q \in M :
                            /\ out[j] = NodeAt(cons.node, p).Path
                            /\ out[k] = NodeAt(cons.node, q).Path
                            /\ PreorderBefore(p, q)
           /\ (cons.query = <<>>) => Len(out) = Cardinality(Positions(cons.node))
           /\ (M = {}) => out = <<>>

\* A directory that matches in another case, a matching file below it, a
\* sibling that does not match.
C11_Witness ==
    /\ cons.fn = "SearchDFS"
    /\ cons.query = <<"a">>
    /\ Len(cons.node.Children) = 2
    /\ cons.out = << <<RootPath[1], <<"A">> >>, <<RootPath[1], <<"A">>, <<"a", "B">> >> >>

----------------------------------------------------------------------------
(* Reading the printed lines back, as a reader of the output does *)

Connectors == {"|-- ", "+-- "}
Segments == {"|   ", "    "}

\* The index of the connector of a line printed below `prefix`: the first
\* connector after the prefix (0: none).
ConnAt(line, prefix) ==
    LET C == {c \in (Len(prefix) + 1)..Len(line) : line[c] \in Connectors}
    IN IF C = {} THEN 0 ELSE CHOOSE c \in C : \A x \in C : c <= x

LineDepth(line, prefix) == ConnAt(line, prefix) - Len(prefix)
LineName(line, prefix) == SubSeq(line, ConnAt(line, prefix) + 1, Len(line))

\* No position: the line cannot be read as a node of the tree.
NoPos == <<0>>

\* The position of the node that line k of `out` shows: the child, by name, of
\* the node shown by the nearest line above it that is one level less deep.
RECURSIVE LinePos(_, _, _, _)
LinePos(node, out, prefix, k) ==
    LET d == LineDepth(out[k], prefix)
        J == {j \in 1..(k - 1) : LineDepth(out[j], prefix) = d - 1}
        up == IF d < 1 THEN NoPos
              ELSE IF d = 1 THEN <<>>
              ELSE IF J = {} THEN NoPos
              ELSE LinePos(node, out, prefix, CHOOSE j \in J : \A x \in J : x <= j)
    IN IF up = NoPos THEN NoPos
       ELSE LET sibs == NodeAt(node, up).Children
                I == {i \in 1..Len(sibs) : sibs[i].Name = LineName(out[k], prefix)}
            IN IF I = {} THEN NoPos ELSE up \o <<CHOOSE i \in I : TRUE>>

\* The positions shown by the output of the last PrintTreeDFS call, line by line.
Shows == [k \in 1..Len(cons.out) |-> LinePos(cons.node, cons.out, cons.prefix, k)]
ShownSet == {Shows[k] : k \in 1..Len(cons.out)}

\* The directories through which a position is reached are all directories
\* (the children of the given node are walked whatever it is).
ThroughDirs(node, p) ==
    \A k \in 1..(Len(p) - 1) : NodeAt(node, SubSeq(p, 1, k)).IsDir

\* The regex filter in the words of the specification: the name matches, or
\* the node is a directory and the name of one of its immediate children matches.
KeptByRegex(n, regex) ==
    \/ MatchString(regex, n.Name)
    \/ n.IsDir /\ \E g \in 1..Len(n.Children) : MatchString(regex, n.Children[g].Name)

\* C12: regex filter with one-level lookahead.  When PrintTreeDFS is given a
\* regex, a child of the given node or of a printed directory is printed if
\* and only if its name matches, or it is a directory and the name of one of
\* its immediate children matches (and, under dirsOnly, it is a directory);
\* a file that does not match is never printed and names deeper than the
\* immediate children do not count.
C12_RegexLookahead ==
    (cons.fn = "PrintTreeDFS" /\ cons.regex # NoRegex) =>
        /\ NoPos \notin ShownSet
        /\ \A p \in Positions(cons.node) \ {<<>>} :
             LET n == NodeAt(cons.node, p)
                 up == SubSeq(p, 1, Len(p) - 1)
             IN (up = <<>> \/ (up \in ShownSet /\ NodeAt(cons.node, up).IsDir))
                  => (p \in ShownSet <=>
                        /\ KeptByRegex(n, cons.regex)
                        /\ cons.dirsOnly => n.IsDir)

\* A directory whose name does not match is printed for its matching child,
\* and next to it a file that does not match is left out.
C12_Witness ==
    /\ cons.fn = "PrintTreeDFS"
    /\ cons.regex # NoRegex
    /\ ~cons.dirsOnly
    /\ \E p \in ShownSet :
         /\ NodeAt(cons.node, p).IsDir
         /\ ~MatchString(cons.regex, NodeAt(cons.node, p).Name)
         /\ (p \o <<1>>) \in ShownSet
    /\ \E i \in 1..Len(cons.node.Children) :
         /\ ~cons.node.Children[i].IsDir
         /\ <<i>> \notin ShownSet

\* C13: dirs-only.  With dirsOnly set every printed line shows a directory,
\* whatever the regex and the depth; with no regex every directory below the
\* given node that is reached through directories has its line.
C13_DirsOnly ==
    (cons.fn = "PrintTreeDFS" /\ cons.dirsOnly) =>
        /\ \A k \in 1..Len(cons.out) :
             /\ Shows[k] # NoPos
             /\ NodeAt(cons.node, Shows[k]).IsDir
        /\ (cons.regex = NoRegex) =>
             \A p \in Positions(cons.node) \ {<<>>} :
                (NodeAt(cons.node, p).IsDir /\ ThroughDirs(cons.node, p))
                    => \E k \in 1..Len(cons.out) : Shows[k] = p

\* A directory two levels down is printed, the file next to its parent is not.
C13_Witness ==
    /\ cons.fn = "PrintTreeDFS"
    /\ cons.dirsOnly
    /\ cons.regex = NoRegex
    /\ \E p \in ShownSet : Len(p) = 2
    /\ \E i \in 1..Len(cons.node.Children) : ~cons.node.Children[i].IsDir

\* The node at a position is the last of its parent's stored children.
IsLastChild(node, p) ==
    p[Len(p)] = Len(NodeAt(node, SubSeq(p, 1, Len(p) - 1)).Children)

\* C14: connector by unfiltered position.  A printed line carries the last
\* connector exactly when its node is the last of its parent's stored
\* children, filtered out or not, and the segment it carries for each of its
\* ancestors is the blank one exactly when that ancestor is the last stored
\* child of its own parent.
C14_ConnectorByPosition ==
    (cons.fn = "PrintTreeDFS") =>
        \A k \in 1..Len(cons.out) :
            LET p == Shows[k]
                line == cons.out[k]
                base == Len(cons.prefix)
            IN /\ p # NoPos
               /\ line[base + Len(p)] = "+-- " <=> IsLastChild(cons.node, p)
               /\ \A j \in 1..(Len(p) - 1) :
                    line[base + j] =
                        IF IsLastChild(cons.node, SubSeq(p, 1, j)) THEN "    " ELSE "|   "

\* The final child of the given node is filtered out, an earlier one is
\* printed with its own child, and no line of that group carries the last
\* connector.
C14_Witness ==
    /\ cons.fn = "PrintTreeDFS"
    /\ <<Len(cons.node.Children)>> \notin ShownSet
    /\ \E p \in ShownSet : Len(p) = 2
    /\ \A k \in 1..Len(cons.out) :
         LineDepth(cons.out[k], cons.prefix) = 1
            => cons.out[k][Len(cons.prefix) + 1] = "|-- "

\* C15: unfiltered print.  With no regex and dirsOnly false the output has
\* exactly one line for each node below the given node that is reached
\* through directories, none for the given node, in depth-first pre-order,
\* and the line of a node at depth d is the caller's prefix, d-1 segments, a
\* connector and the node's name.
C15_UnfilteredPrint ==
    (cons.fn = "PrintTreeDFS" /\ cons.regex = NoRegex /\ ~cons.dirsOnly) =>
        LET R == {p \in Positions(cons.node) \ {<<>>} : ThroughDirs(cons.node, p)}
            base == Len(cons.prefix)
        IN /\ Len(cons.out) = Cardinality(R)
           /\ \A k \in 1..Len(cons.out) : Shows[k] \in R
           /\ \A j, k \in 1..Len(cons.out) :
                j < k => PreorderBefore(Shows[j], Shows[k])
           /\ \A k \in 1..Len(cons.out) :
                LET line == cons.out[k]
                    d == Len(Shows[k])
                    name == NodeAt(cons.node, Shows[k]).Name
                IN /\ Len(line) = base + d + Len(name)
                   /\ SubSeq(line, 1, base) = cons.prefix
                   /\ \A j \in 1..(d - 1) : line[base + j] \in Segments
                   /\ line[base + d] \in Connectors
                   /\ SubSeq(line, base + d + 1, Len(line)) = name

\* A print below a caller's prefix of a tree three levels deep.
C15_Witness ==
    /\ cons.fn = "PrintTreeDFS"
    /\ cons.regex = NoRegex
    /\ ~cons.dirsOnly
    /\ cons.prefix # <<>>
    /\ Len(cons.out) >= 3
    /\ \E p \in ShownSet : Len(p) = 2
    /\ \E p \in ShownSet : Len(p) = 1 /\ ~NodeAt(cons.node, p).IsDir

\* An invocation that listed its directory and found it empty.
ListedEmpty(id) == tasks[id].listRes = "ok" /\ tasks[id].entries = <<>>

\* C16 as stated: empty directory.  BuildTreeSafe on a directory whose
\* listing is empty returns a non-nil node with IsDir true and no children,
\* and SearchDFS and PrintTreeDFS on such a node print nothing, whatever
\* their other arguments.
C16_EmptyDirectorySilent ==
    /\ \A id \in DOMAIN tasks :
         (Returned(id) /\ ListedEmpty(id)) =>
            /\ tasks[id].ret # nil
            /\ tasks[id].ret.IsDir
            /\ tasks[id].ret.Children = <<>>
    /\ (/\ cons.fn # "none"
        /\ cons.node.IsDir
        /\ cons.node.Children = <<>>) => cons.out = <<>>

\* C16, amended: empty directory.  BuildTreeSafe on a directory whose listing
\* is empty returns a non-nil node with IsDir true and no children; on such a
\* node PrintTreeDFS prints nothing whatever its arguments, and SearchDFS
\* prints the node's own Path when the lower-cased query is contained in its
\* lower-cased name (so always for the empty query) and nothing otherwise.
C16_EmptyDirectoryOwnPath ==
    /\ \A id \in DOMAIN tasks :
         (Returned(id) /\ ListedEmpty(id)) =>
            /\ tasks[id].ret # nil
            /\ tasks[id].ret.IsDir
            /\ tasks[id].ret.Children = <<>>
    /\ (/\ cons.fn = "PrintTreeDFS"
        /\ cons.node.IsDir
        /\ cons.node.Children = <<>>) => cons.out = <<>>
    /\ (/\ cons.fn = "SearchDFS"
        /\ cons.node.IsDir
        /\ cons.node.Children = <<>>) =>
            cons.out = IF Contains(ToLower(cons.node.Name), ToLower(cons.query))
                       THEN <<cons.node.Path>> ELSE <<>>

\* The test built the tree of an empty directory and searched it for "R",
\* which its name "r" contains when case is set aside.
C16_Witness ==
    /\ <<1>> \in DOMAIN tasks
    /\ tasks[<<1>>].pc = "done"
    /\ ListedEmpty(<<1>>)
    /\ cons.fn = "SearchDFS"
    /\ cons.node = tasks[<<1>>].ret
    /\ cons.query = <<"R">>
    /\ cons.out = <<RootPath>>

\* No stat and no listing has failed in any invocation.
NoFailure ==
    \A d \in DOMAIN tasks : tasks[d].statRes # "err" /\ tasks[d].listRes # "err"

\* C17: concurrent top-level builds.  In a run in which no stat or listing
\* ever fails and the one signal is never tripped, every invocation of every
\* top-level build, however the builds interleave, returns a node, and a
\* build of a directory returns a directory node.
C17_ConcurrentBuilds ==
    [](NoFailure /\ ~abortClosed) =>
        [](\A d \in DOMAIN tasks :
              Returned(d) => /\ tasks[d].ret # nil
                             /\ tasks[d].statRes = "dir" => tasks[d].ret.IsDir)

\* The second build has returned its directory while the first, started
\* before it, is still joining its goroutine.
C17_Witness ==
    /\ NoFailure
    /\ ~abortClosed
    /\ <<2>> \in DOMAIN tasks
    /\ tasks[<<2>>].pc = "done"
    /\ tasks[<<2>>].ret # nil
    /\ tasks[<<2>>].ret.IsDir
    /\ tasks[<<1>>].pc = "wait"
    /\ Len(tasks[<<1>>].entries) = 1

OpPcs == {"stat", "readdir"}
CheckPcs == {"branch", "entry"}

\* Invocation id takes a step.
Steps(id) == id \in DOMAIN tasks' /\ tasks'[id].pc # tasks[id].pc

\* C19 as stated: advisory cancellation bound.  A branch that makes a
\* filesystem operation while the signal is tripped (it passed its check
\* before the trip) does not stand before another filesystem operation
\* afterwards: it makes at most that one before a check.
C19_OneLateOperation ==
    [][\A id \in DOMAIN tasks :
          (abortClosed /\ tasks[id].pc \in OpPcs /\ Steps(id))
              => tasks'[id].pc \notin OpPcs]_vars

\* C19, amended: a branch past its check makes at most two filesystem
\* operations after the trip, its stat and, if that shows a directory, its
\* listing; after the listing, and after a stat that fails or shows a file,
\* it makes none, and a check at the start of an invocation or of a goroutine
\* that finds the signal tripped ends the branch before any.
C19_TwoLateOperations ==
    [][\A id \in DOMAIN tasks :
          (abortClosed /\ Steps(id)) =>
             /\ tasks[id].pc \in CheckPcs => Returned(id)'
             /\ tasks[id].pc = "stat" =>
                  /\ tasks'[id].pc # "stat"
                  /\ tasks'[id].pc = "readdir" => tasks'[id].statRes = "dir"
             /\ tasks[id].pc = "readdir" => tasks'[id].pc \notin OpPcs]_vars

\* The signal is tripped and a branch that went through its check and its
\* stat before or after the trip stands before os.ReadDir, with no check left.
C19_Witness ==
    /\ abortClosed
    /\ \E id \in DOMAIN tasks :
         /\ tasks[id].pc = "readdir"
         /\ ~tasks[id].sawTrip
         /\ tasks[id].nStat = 1

\* The invocation failed at its stat or at its listing.
Failed(d) == tasks[d].statRes = "err" \/ tasks[d].listRes = "err"

\* C20 as stated: a build is stopped only from inside.  A branch of a
\* top-level build finds the signal tripped only if a stat or a listing
\* failed in an invocation of that same build.
C20_StoppedOnlyFromInside ==
    \A id \in DOMAIN tasks : tasks[id].sawTrip => FailedIn(<<id[1]>>)

\* C20, amended: a build is stopped by whoever trips the shared signal.  A
\* branch returns absent at a check only when the process-wide signal is
\* closed, and what closed it is a failed stat or listing of some invocation
\* in the process, of this build or of another, or a CloseOnce call of a
\* client.
C20_StoppedByAnyTrip ==
    [][\A id \in DOMAIN tasks :
          (tasks[id].pc \in CheckPcs /\ Steps(id) /\ Returned(id)') =>
             /\ abortClosed
             /\ hist.closedBy # {}
             /\ \A w \in hist.closedBy :
                  w = <<>> \/ (w \in DOMAIN tasks /\ Failed(w))]_vars

\* A branch of one build has returned absent at its check, and what closed
\* the signal is a failure in another build.
C20_Witness ==
    \E id \in DOMAIN tasks :
        /\ tasks[id].sawTrip
        /\ Returned(id)
        /\ tasks[id].ret = nil
        /\ tasks[id].nStat = 0
        /\ ~FailedIn(<<id[1]>>)
        /\ \E w \in hist.closedBy : w # <<>> /\ w[1] # id[1] /\ Failed(w)

\* C21: fresh signal per build.  A top-level call of BuildTreeSafe made while
\* no other build runs, and with no CloseOnce call of a client since the last
\* reset, starts with the signal open, whatever the builds before it did.
C21_FreshSignalPerBuild ==
    [][(StartBuild /\ Quiescent /\ <<>> \notin hist.closedBy) => ~abortClosed]_vars

\* C22: no shared mutable state during construction.  In every step: slot k
\* of a directory changes only as the goroutine of entry k returns, which it
\* does once; from then on the slot holds what that goroutine returned; the
\* parent reads the slots, to assemble its node, only when every goroutine
\* has finished; and what an invocation has returned is not changed again.
C22_NoSharedMutableState ==
    [][\A p \in DOMAIN tasks :
          /\ \A k \in 1..Len(tasks[p].childNodes) :
               LET c == Append(p, k)
               IN /\ tasks'[p].childNodes[k] # tasks[p].childNodes[k]
                       => (c \in DOMAIN tasks /\ ~Returned(c) /\ Returned(c)')
                  /\ (c \in DOMAIN tasks /\ Returned(c))
                       => tasks'[p].childNodes[k] = tasks[c].ret
          /\ (tasks[p].pc = "wait" /\ Returned(p)')
               => \A k \in 1..Len(tasks[p].childNodes) :
                     tasks[Append(p, k)].pc = "done"
          /\ Returned(p)
               => /\ Returned(p)'
                  /\ tasks'[p].ret = tasks[p].ret
                  /\ tasks'[p].node = tasks[p].node]_vars

\* A directory has returned with the nodes its two goroutines put into their
\* own slots.
C22_Witness ==
    \E p \in DOMAIN tasks :
        /\ Returned(p)
        /\ Len(tasks[p].childNodes) = 2
        /\ tasks[p].childNodes[1] # nil
        /\ tasks[p].childNodes[2] # nil
        /\ tasks[p].childNodes[1] # tasks[p].childNodes[2]
        /\ tasks[p].ret.Children = tasks[p].childNodes

\* C23: channel and once stay paired.  In every state reached by CloseOnce
\* calls, builds and resets made while no build runs, the once guard has fired
\* exactly if the current channel is closed; the current channel is closed
\* exactly if one close ran on it, none ran on a closed channel, and no
\* CloseOnce call returned leaving it open.
C23_ChannelAndOncePaired ==
    /\ onceDone <=> abortClosed
    /\ abortClosed <=> hist.closes = 1
    /\ hist.closes \in {0, 1}
    /\ ~hist.doubleClose
    /\ hist.returned => onceDone

\* After a failure of an earlier build tripped the signal and a reset reopened
\* it, a new failure is about to call CloseOnce on the open channel.
C23_Witness ==
    /\ ~abortClosed
    /\ ~onceDone
    /\ hist.closes = 0
    /\ \E id, w \in DOMAIN tasks :
          /\ Returned(id) /\ tasks[id].statRes = "err" /\ ~tasks[id].sawTrip
          /\ tasks[w].pc = "trip"

\* The node at a position passes the filters of a PrintTreeDFS call.
Kept(node, p, regex, dirsOnly) ==
    LET n == NodeAt(node, p)
    IN /\ dirsOnly => n.IsDir
       /\ (regex # NoRegex) => KeptByRegex(n, regex)

\* The positions below the given node that are reached through directories
\* and through nodes that pass the filters only, themselves included.
Visible(node, regex, dirsOnly) ==
    {p \in Positions(node) \ {<<>>} :
        /\ ThroughDirs(node, p)
        /\ \A k \in 1..Len(p) : Kept(node, SubSeq(p, 1, k), regex, dirsOnly)}

\* The place of p among the positions V in depth-first pre-order.
Rank(V, p) == 1 + Cardinality({q \in V : PreorderBefore(q, p)})

\* The line of the node at p: the prefix, a segment for each ancestor below
\* the given node, the connector, the name.
ExpectedLine(node, p, prefix) ==
    prefix
    \o [j \in 1..(Len(p) - 1) |->
           IF IsLastChild(node, SubSeq(p, 1, j)) THEN "    " ELSE "|   "]
    \o <<IF IsLastChild(node, p) THEN "+-- " ELSE "|-- ">>
    \o NodeAt(node, p).Name

\* C24: printed lines form a connected top-down tree.  The output of
\* PrintTreeDFS is, in depth-first pre-order, the line of every node below the
\* given node all of whose ancestors below the given node are printed
\* directories and which itself passes the filters, and nothing else: the line
\* of a parent comes before the lines of its children, and a node below a
\* directory that is filtered out has no line, whatever its name.
C24_ConnectedTopDown ==
    (cons.fn = "PrintTreeDFS") =>
        LET V == Visible(cons.node, cons.regex, cons.dirsOnly)
        IN /\ Len(cons.out) = Cardinality(V)
           /\ \A p \in V :
                cons.out[Rank(V, p)] = ExpectedLine(cons.node, p, cons.prefix)
           /\ \A p \in V :
                Len(p) > 1 =>
                    /\ SubSeq(p, 1, Len(p) - 1) \in V
                    /\ Rank(V, SubSeq(p, 1, Len(p) - 1)) < Rank(V, p)

\* A name that matches the regex lies two levels below a directory of the
\* given node whose name and whose children's names do not match, and no line
\* shows it.
C24_Witness ==
    /\ cons.fn = "PrintTreeDFS"
    /\ cons.regex # NoRegex
    /\ ~cons.dirsOnly
    /\ \E p \in Positions(cons.node) :
         /\ Len(p) = 3
         /\ ThroughDirs(cons.node, p)
         /\ MatchString(cons.regex, NodeAt(cons.node, p).Name)
         /\ NodeAt(cons.node, SubSeq(p, 1, 1)).IsDir
         /\ ~KeptByRegex(NodeAt(cons.node, SubSeq(p, 1, 1)), cons.regex)
         /\ \A k \in 1..Len(cons.out) :
              LineName(cons.out[k], cons.prefix) # NodeAt(cons.node, p).Name

====
